---- MODULE Spec2Model ----
(***************************************************************************)
(* Track loading pipeline of run_page/gpxtrackposter/track_loader.py:      *)
(* the concurrent load orchestrator (_load_data_tracks,                    *)
(* _load_gpxfit_tracks), the track filter (_filter_tracks) and the track   *)
(* merger (_merge_tracks).                                                 *)
(*                                                                         *)
(* Track objects live in a heap (object id -> fields); lists hold object   *)
(* ids, so that Track.append's in-place mutation is visible through every  *)
(* list that holds the object, as in Python.                               *)
(*                                                                         *)
(* Also run_page/garmin_sync_garth.py: Garmin.login under its retry        *)
(* decorator, Garmin.get_activities and download_new_activities with its   *)
(* semaphore-bounded gather.                                               *)
(***************************************************************************)
EXTENDS Integers, Sequences, FiniteSets, TLC

VARIABLES
    heap,               \* Track objects: id -> fields
    heap0,              \* the Track objects as they were before the first call
    tracks,             \* the list handed to _filter_tracks / _merge_tracks
    merged,             \* list returned by the latest _merge_tracks call
    decisions,          \* per non-first track of the latest call: what the loop saw and did
    prev,               \* <<>> or <<[merged, heap]>>: result of the call before the latest
    calls,              \* number of _merge_tracks calls made
    filtered,           \* <<>> or <<list>>: list returned by _filter_tracks
    filter_log,         \* log.info lines of _filter_tracks: <<file name, reason>>
    year_range,         \* TrackLoader.year_range
    special_file_names, \* TrackLoader.special_file_names
    load_kind,          \* "single": _load_data_tracks, "gpxfit": _load_gpxfit_tracks
    nunits,             \* number of files (pairs of files) handed to the loader
    pc,                 \* where the loader's caller thread is
    submitted,          \* how many units executor.submit has been called for
    fut,                \* per unit: its future's state
    outcome,            \* per finished unit: what load_func did
    done_order,         \* units in the order they finished
    collected,          \* futures the result loop has handled
    loaded_tracks,      \* the loader's local mapping: file name -> Track
    error_log,          \* file names of the log.error lines, in order
    raised,             \* <<>> or <<exception propagating out of the loader>>
    pipeline,           \* the entry point (load_tracks...) that called the loader
    fs,                 \* the file system: directory argument -> what is there
    synced_files,       \* what load_synced_file_list() returns
    entry_point,        \* which function of TrackLoader is being run
    args,               \* its arguments
    stage,              \* where the entry point is
    listed,             \* what each _list_data_files call so far yielded, in order
    id_sets,            \* <<>> or <<[fitgpxid, fituniqid, gpxuniqid]>>
    batches,            \* the loader calls made so far: files, what parsing did, result
    pre_tracks,         \* the entry point's local list tracks before _filter_tracks
    entry_raised,       \* <<>> or <<exception leaving the entry point>>
    returned,           \* <<>> or <<list the entry point returned>>
    garmin_pc,          \* where download_new_activities is
    token,              \* Garmin.token
    is_login,           \* Garmin.is_login
    attempt_number,     \* attempts of the running login() call, as tenacity counts them
    login_from,         \* the caller of the running login() call
    login_log,          \* per login() call that ended: how, and is_login then
    api_log,            \* is_login at each garth.connectapi request
    activity_ids,       \* <<>> or <<what get_activity_id_list returned>>
    downloaded_ids,     \* the ids of the files already in the folder
    to_generate_garmin_ids, \* <<>> or <<list of ids to download>>
    task,               \* per download task: its state
    starts,             \* per download task: times its coroutine was started
    garmin_raised       \* <<>> or <<exception leaving download_new_activities>>

trackVars == <<heap, heap0, tracks, merged, decisions, prev, calls, filtered, filter_log,
               year_range, special_file_names>>
loadVars == <<load_kind, nunits, pc, submitted, fut, outcome, done_order,
              collected, loaded_tracks, error_log, raised, pipeline>>
entryVars == <<fs, synced_files, entry_point, args, stage, listed, id_sets,
               batches, pre_tracks, entry_raised, returned>>
garminVars == <<garmin_pc, token, is_login, attempt_number, login_from,
                login_log, api_log, activity_ids, downloaded_ids,
                to_generate_garmin_ids, task, starts, garmin_raised>>
vars == <<trackVars, loadVars, entryVars, garminVars>>

(***************************************************************************)
(* Bounds and program constants                                            *)
(***************************************************************************)
MaxTracks == 3
MaxTick == 2
MaxFilterTracks == 2
MaxLen == 3
MaxYear == 2
MaxFiles == 3
MaxWorkers == 2
ScenarioGrid == 3
MaxEntries == 2
MaxIds == 4
MaxTailTracks == 2
MaxActivities == 11
LenDenom == 2
MergeWindow == 3600
MinLength == 100
StopAfterAttempt == 5
SemaphoreLimit == 10

None == <<>>
Some(v) == <<v>>
Val(o) == o[1]

Max(a, b) == IF a >= b THEN a ELSE b
Range(s) == {s[i] : i \in 1..Len(s)}

\* Instants, in seconds: a grid of half merge windows.
Tick == MergeWindow \div 2
Times == {k * Tick : k \in 0..MaxTick}
Types == {"Run", "Ride"}

RECURSIVE SumSeq(_)
SumSeq(s) == IF s = <<>> THEN 0 ELSE Head(s) + SumSeq(Tail(s))

(***************************************************************************)
(* Track.append(other): the merged entry's end time is extended, the       *)
(* length added and the provenance appended.                               *)
(***************************************************************************)
TrackAppend(self, other) ==
    [self EXCEPT !.end_time_local = Some(Max(Val(self.end_time_local),
                                                 Val(other.end_time_local))),
                 !.length = self.length + other.length,
                 !.file_names = self.file_names \o other.file_names]

(***************************************************************************)
(* sorted(tracks, key=lambda t1: t1.start_time_local): a stable sort.      *)
(***************************************************************************)
StartKey(h, t) == Val(h[t].start_time_local)

RECURSIVE InsertByStart(_, _, _)
InsertByStart(h, s, t) ==
    IF s = <<>> THEN <<t>>
    ELSE IF StartKey(h, Head(s)) <= StartKey(h, t)
         THEN <<Head(s)>> \o InsertByStart(h, Tail(s), t)
         ELSE <<t>> \o s

RECURSIVE SortFrom(_, _, _)
SortFrom(h, ts, acc) ==
    IF ts = <<>> THEN acc
    ELSE SortFrom(h, Tail(ts), InsertByStart(h, acc, Head(ts)))

Unsorted(h, ts) == ts
SortedByStart(h, ts) == SortFrom(h, ts, <<>>)

(***************************************************************************)
(* _merge_tracks                                                           *)
(***************************************************************************)
ShouldMergeClosedWindow(dt, last_type, t_type) ==
    0 < dt /\ dt <= MergeWindow /\ last_type = t_type

ShouldMergeAnyType(dt, last_type, t_type) ==
    0 < dt /\ dt < MergeWindow

ShouldMergeNoLowerBound(dt, last_type, t_type) ==
    dt < MergeWindow /\ last_type = t_type

\* line 208: 0 < dt < 3600 and merged_tracks[-1].type == t.type
ShouldMerge(dt, last_type, t_type) ==
    0 < dt /\ dt < MergeWindow /\ last_type = t_type

\* What one iteration saw when it examined t: dt as the code computes it, the
\* gap to the end of the last output entry, and whether the types agree.
Decision(st, t, last, dt) ==
    [t |-> t, into |-> last, dt |-> dt,
     gap |-> Val(st.heap[t].start_time_local) - Val(st.heap[last].end_time_local),
     same_type |-> st.heap[last].type = st.heap[t].type]

\* A loop body that also appends an absorbed track as an entry of its own.
MergeStepDup(st, t) ==
    IF st.last_end_time = None
    THEN [st EXCEPT !.merged = Append(@, t),
                    !.last_end_time = st.heap[t].end_time_local]
    ELSE LET dt == Val(st.heap[t].start_time_local) - Val(st.last_end_time)
             last == st.merged[Len(st.merged)]
         IN  IF ShouldMerge(dt, st.heap[last].type, st.heap[t].type)
             THEN [merged |-> Append(st.merged, t),
                   heap |-> [st.heap EXCEPT ![last] = TrackAppend(@, st.heap[t])],
                   last_end_time |-> st.heap[t].end_time_local,
                   decisions |-> Append(st.decisions, Decision(st, t, last, dt))]
             ELSE [merged |-> Append(st.merged, t),
                   heap |-> st.heap,
                   last_end_time |-> st.heap[t].end_time_local,
                   decisions |-> Append(st.decisions, Decision(st, t, last, dt))]

\* A loop body that moves last_end_time only when it opens a new entry.
MergeStepStaleEnd(st, t) ==
    IF st.last_end_time = None
    THEN [st EXCEPT !.merged = Append(@, t),
                    !.last_end_time = st.heap[t].end_time_local]
    ELSE LET dt == Val(st.heap[t].start_time_local) - Val(st.last_end_time)
             last == st.merged[Len(st.merged)]
         IN  IF ShouldMerge(dt, st.heap[last].type, st.heap[t].type)
             THEN [merged |-> st.merged,
                   heap |-> [st.heap EXCEPT ![last] = TrackAppend(@, st.heap[t])],
                   last_end_time |-> st.last_end_time,
                   decisions |-> Append(st.decisions, Decision(st, t, last, dt))]
             ELSE [merged |-> Append(st.merged, t),
                   heap |-> st.heap,
                   last_end_time |-> st.heap[t].end_time_local,
                   decisions |-> Append(st.decisions, Decision(st, t, last, dt))]

\* A loop body that compares the type with the first output entry's.
MergeStepFirstType(st, t) ==
    IF st.last_end_time = None
    THEN [st EXCEPT !.merged = Append(@, t),
                    !.last_end_time = st.heap[t].end_time_local]
    ELSE LET dt == Val(st.heap[t].start_time_local) - Val(st.last_end_time)
             last == st.merged[Len(st.merged)]
         IN  IF ShouldMerge(dt, st.heap[st.merged[1]].type, st.heap[t].type)
             THEN [merged |-> st.merged,
                   heap |-> [st.heap EXCEPT ![last] = TrackAppend(@, st.heap[t])],
                   last_end_time |-> st.heap[t].end_time_local,
                   decisions |-> Append(st.decisions, Decision(st, t, last, dt))]
             ELSE [merged |-> Append(st.merged, t),
                   heap |-> st.heap,
                   last_end_time |-> st.heap[t].end_time_local,
                   decisions |-> Append(st.decisions, Decision(st, t, last, dt))]

\* lines 203-212: one iteration of the loop over the sorted list
MergeStep(st, t) ==
    IF st.last_end_time = None
    THEN [st EXCEPT !.merged = Append(@, t),
                    !.last_end_time = st.heap[t].end_time_local]
    ELSE LET dt == Val(st.heap[t].start_time_local) - Val(st.last_end_time)
             last == st.merged[Len(st.merged)]
         IN  IF ShouldMerge(dt, st.heap[last].type, st.heap[t].type)
             THEN [merged |-> st.merged,
                   heap |-> [st.heap EXCEPT ![last] = TrackAppend(@, st.heap[t])],
                   last_end_time |-> st.heap[t].end_time_local,
                   decisions |-> Append(st.decisions, Decision(st, t, last, dt))]
             ELSE [merged |-> Append(st.merged, t),
                   heap |-> st.heap,
                   last_end_time |-> st.heap[t].end_time_local,
                   decisions |-> Append(st.decisions, Decision(st, t, last, dt))]

RECURSIVE MergeLoop(_, _)
MergeLoop(st, ts) ==
    IF ts = <<>> THEN st ELSE MergeLoop(MergeStep(st, Head(ts)), Tail(ts))

\* lines 198-214: the whole function; the heap is returned with the entries
\* because the absorbing Track objects are mutated in place.
MergeTracksOp(h, ts) ==
    MergeLoop([merged |-> <<>>, heap |-> h, last_end_time |-> None,
               decisions |-> <<>>],
              SortedByStart(h, ts))

(***************************************************************************)
(* Specification of the merger: any list of up to MaxTracks valid tracks,  *)
(* merged, and the result merged once more.                                *)
(***************************************************************************)
\* Track.length is a float; lengths are counted in 1/LenDenom of a unit.
Whole(n) == n * LenDenom

\* A parsed track with one provenance file, named after the object.
ValidTrack(i, ty, s, e, len) ==
    [file_names |-> <<i>>, type |-> ty, start_time_local |-> Some(s),
     end_time_local |-> Some(e), length |-> len, special |-> FALSE]

\* The fields a parser reads from a file: end >= start.
Shapes ==
    {sh \in [type : Types, start : Times, end : Times] : sh.end >= sh.start}

\* The loader at rest: no batch was handed to it.
EntryIdle ==
    /\ fs = <<>>
    /\ synced_files = {}
    /\ entry_point = "none"
    /\ args = <<>>
    /\ stage = "idle"
    /\ listed = <<>>
    /\ id_sets = None
    /\ batches = <<>>
    /\ pre_tracks = <<>>
    /\ entry_raised = None
    /\ returned = None

\* No Garmin client was made.
GarminIdle ==
    /\ garmin_pc = "idle"
    /\ token = None
    /\ is_login = FALSE
    /\ attempt_number = 0
    /\ login_from = "none"
    /\ login_log = <<>>
    /\ api_log = <<>>
    /\ activity_ids = None
    /\ downloaded_ids = <<>>
    /\ to_generate_garmin_ids = None
    /\ task = <<>>
    /\ starts = <<>>
    /\ garmin_raised = None

TracksIdle ==
    /\ heap = <<>>
    /\ heap0 = <<>>
    /\ tracks = <<>>
    /\ merged = <<>>
    /\ decisions = <<>>
    /\ prev = None
    /\ calls = 0
    /\ filtered = None
    /\ filter_log = <<>>
    /\ year_range = None
    /\ special_file_names = {}

LoaderIdle ==
    /\ load_kind = "single"
    /\ nunits = 0
    /\ pc = "idle"
    /\ submitted = 0
    /\ fut = <<>>
    /\ outcome = <<>>
    /\ done_order = <<>>
    /\ collected = {}
    /\ loaded_tracks = <<>>
    /\ error_log = <<>>
    /\ raised = None
    /\ pipeline = "idle"

InitMerge ==
    /\ LoaderIdle
    /\ GarminIdle
    /\ EntryIdle
    /\ \E n \in 0..MaxTracks :
         /\ tracks = [i \in 1..n |-> i]
         /\ \E sh \in [1..n -> Shapes] :
              heap = [i \in 1..n |->
                        ValidTrack(i, sh[i].type, sh[i].start, sh[i].end, Whole(i))]
    /\ heap0 = heap
    /\ merged = <<>>
    /\ decisions = <<>>
    /\ prev = None
    /\ calls = 0
    /\ filtered = None
    /\ filter_log = <<>>
    /\ year_range = None
    /\ special_file_names = {}

\* tracks = self._merge_tracks(tracks), on the caller's list
MergeTracks ==
    /\ calls = 0
    /\ LET r == MergeTracksOp(heap, tracks)
       IN  /\ merged' = r.merged
           /\ heap' = r.heap
           /\ decisions' = r.decisions
    /\ calls' = 1
    /\ UNCHANGED <<heap0, tracks, prev, filtered, filter_log, year_range,
                   special_file_names>>
    /\ UNCHANGED <<loadVars, entryVars, garminVars>>

\* _merge_tracks applied to its own output
MergeAgain ==
    /\ calls = 1
    /\ LET r == MergeTracksOp(heap, merged)
       IN  /\ merged' = r.merged
           /\ heap' = r.heap
           /\ decisions' = r.decisions
    /\ prev' = Some([merged |-> merged, heap |-> heap])
    /\ calls' = 2
    /\ UNCHANGED <<heap0, tracks, filtered, filter_log, year_range,
                   special_file_names>>
    /\ UNCHANGED <<loadVars, entryVars, garminVars>>

NextMerge == MergeTracks \/ MergeAgain

SpecMerge == InitMerge /\ [][NextMerge]_vars
(***************************************************************************)
(* Properties of the merger                                                *)
(***************************************************************************)

\* t is an entry of its own in the returned list
Standalone(t) == t \in Range(merged)

\* t's data went into entry e: t is not returned, e carries t's provenance
AbsorbedInto(t, e) ==
    /\ t \notin Range(merged)
    /\ e \in Range(merged)
    /\ \E k \in 1..Len(heap[e].file_names) : heap[e].file_names[k] = t

EntryStart(k) == Val(heap[merged[k]].start_time_local)
EntryEnd(k) == Val(heap[merged[k]].end_time_local)
EntryGap(k) == EntryStart(k + 1) - EntryEnd(k)

\* C4 as stated: a non-first track is absorbed into the last output entry iff
\* 0 <= gap < 3600 and the types agree (gap = t.start - end of the last output
\* entry), and is a standalone entry otherwise.
C4_AbsorbedIffGapFromZero ==
    calls = 1 =>
        \A k \in 1..Len(decisions) :
            LET d == decisions[k]
                pred == 0 <= d.gap /\ d.gap < MergeWindow /\ d.same_type
            IN  /\ AbsorbedInto(d.t, d.into) <=> pred
                /\ Standalone(d.t) <=> ~pred

\* C4 amended: a non-first track is absorbed into the last output entry iff
\* 0 < gap < 3600 and the types agree, and is a standalone entry otherwise; a
\* gap of exactly 0 and a gap of exactly 3600 both give a standalone entry.
C4_AbsorbedIffGapAboveZero ==
    calls = 1 =>
        \A k \in 1..Len(decisions) :
            LET d == decisions[k]
                pred == 0 < d.gap /\ d.gap < MergeWindow /\ d.same_type
            IN  /\ AbsorbedInto(d.t, d.into) <=> pred
                /\ Standalone(d.t) <=> ~pred

\* C4 witness: one call met a same-type gap of 0 and a same-type gap of 3600
\* (both standalone) and a same-type gap inside the window (absorbed).
C4_Witness ==
    /\ calls = 1
    /\ \E k \in 1..Len(decisions) :
         decisions[k].gap = 0 /\ decisions[k].same_type /\ Standalone(decisions[k].t)
    /\ \E k \in 1..Len(decisions) :
         /\ decisions[k].gap > 0 /\ decisions[k].gap < MergeWindow
         /\ AbsorbedInto(decisions[k].t, decisions[k].into)

\* C4, the other boundary: a same-type gap of exactly 3600, standalone.
C4_WitnessWindowEnd ==
    /\ calls = 1
    /\ \E k \in 1..Len(decisions) :
         /\ decisions[k].gap = MergeWindow /\ decisions[k].same_type
         /\ Standalone(decisions[k].t)

\* C5 as stated: a same-type track that starts at or before the previous
\* track's end (zero or negative gap) is merged into the previous output entry.
C5_OverlapIsMerged ==
    calls = 1 =>
        \A k \in 1..Len(decisions) :
            (decisions[k].same_type /\ decisions[k].dt <= 0)
                => AbsorbedInto(decisions[k].t, decisions[k].into)

\* C5 amended: a track that starts at or before the previous track's end (zero
\* or negative gap) is never merged: it is emitted as an entry of its own, and
\* the previous entry keeps its end time, length and provenance.
C5_OverlapIsStandalone ==
    calls = 1 =>
        \A k \in 1..Len(decisions) :
            decisions[k].dt <= 0 =>
                /\ Standalone(decisions[k].t)
                /\ ~AbsorbedInto(decisions[k].t, decisions[k].into)

\* C5 witness: a same-type track with a negative gap, emitted on its own.
C5_Witness ==
    /\ calls = 1
    /\ \E k \in 1..Len(decisions) :
         /\ decisions[k].same_type /\ decisions[k].dt < 0
         /\ Standalone(decisions[k].t)

\* C6: merging the output of a merge returns the same entries: the same
\* objects in the same order with the same boundaries, types, lengths and
\* provenance.
C6_MergeIdempotent ==
    calls = 2 => (merged = Val(prev).merged /\ heap = Val(prev).heap)

\* C6 witness: the second merge ran on an output with a merged entry followed
\* by another entry of the same type.
C6_Witness ==
    /\ calls = 2
    /\ \E k \in 1..(Len(merged) - 1) :
         /\ Len(heap[merged[k]].file_names) >= 2
         /\ heap[merged[k]].type = heap[merged[k + 1]].type

\* C7: the provenance lists of the returned entries have, together, as many
\* elements as there are input tracks, and every input track's file is in
\* exactly one of them, once.
C7_ProvenanceConserved ==
    calls = 1 =>
        /\ SumSeq([k \in 1..Len(merged) |-> Len(heap[merged[k]].file_names)])
              = Len(tracks)
        /\ \A i \in Range(tracks) :
              Cardinality({<<k, j>> \in (1..Len(merged)) \X (1..Len(tracks)) :
                              /\ j <= Len(heap[merged[k]].file_names)
                              /\ heap[merged[k]].file_names[j] = i}) = 1

\* C7 witness: a full input list of which some tracks were absorbed and some
\* were not.
C7_Witness ==
    /\ calls = 1
    /\ Len(tracks) = MaxTracks
    /\ Len(merged) = 2

\* C8 as stated: adjacent output entries have strictly increasing start times.
C8_StrictlyOrdered ==
    calls = 1 =>
        \A k \in 1..(Len(merged) - 1) : EntryStart(k) < EntryStart(k + 1)

\* C8 amended: adjacent output entries have non-decreasing start times; two
\* tracks that share a start time are both emitted, in their input order.
C8_Ordered ==
    calls = 1 =>
        /\ \A k \in 1..(Len(merged) - 1) : EntryStart(k) <= EntryStart(k + 1)
        /\ \A k \in 1..(Len(merged) - 1) :
              EntryStart(k) = EntryStart(k + 1) => merged[k] < merged[k + 1]

\* C8 witness: an input that was not in start-time order, whose output has two
\* adjacent entries with the same start time.
C8_Witness ==
    /\ calls = 1
    /\ \E i \in 1..(Len(tracks) - 1) :
         StartKey(heap, tracks[i]) > StartKey(heap, tracks[i + 1])
    /\ \E k \in 1..(Len(merged) - 1) : EntryStart(k) = EntryStart(k + 1)

\* C9 as stated: no two adjacent output entries have the same type and a gap
\* (later start minus earlier end) in [0, 3600).
C9_NoAdjacentClosedPredicate ==
    calls = 1 =>
        \A k \in 1..(Len(merged) - 1) :
            ~(/\ heap[merged[k]].type = heap[merged[k + 1]].type
              /\ 0 <= EntryGap(k) /\ EntryGap(k) < MergeWindow)

\* C9 amended: no two adjacent output entries have the same type and a gap
\* strictly between 0 and 3600 seconds.
C9_NoAdjacentOpenPredicate ==
    calls = 1 =>
        \A k \in 1..(Len(merged) - 1) :
            ~(/\ heap[merged[k]].type = heap[merged[k + 1]].type
              /\ 0 < EntryGap(k) /\ EntryGap(k) < MergeWindow)

\* C9 witness: adjacent output entries of the same type with a gap of 0, after
\* a merged entry.
C9_Witness ==
    /\ calls = 1
    /\ \E k \in 1..(Len(merged) - 1) :
         /\ heap[merged[k]].type = heap[merged[k + 1]].type
         /\ EntryGap(k) = 0
         /\ Len(heap[merged[k]].file_names) >= 2

\* The input tracks whose data is in entry e: its provenance names them.
Constituents(e) == Range(heap[e].file_names)

\* C18: every input track whose data is in an output entry had the entry's
\* type, and a track whose type differs from the last entry's always starts an
\* entry of its own.
C18_EntriesHomogeneous ==
    calls = 1 =>
        /\ \A e \in Range(merged) :
              \A i \in Constituents(e) : heap0[i].type = heap[e].type
        /\ \A k \in 1..Len(decisions) :
              ~decisions[k].same_type => Standalone(decisions[k].t)

\* C18 witness: a merged entry followed, inside the merge window, by a track
\* of the other type, which is an entry of its own.
C18_Witness ==
    /\ calls = 1
    /\ \E k \in 1..Len(decisions) :
         /\ ~decisions[k].same_type
         /\ 0 < decisions[k].dt /\ decisions[k].dt < MergeWindow
         /\ Cardinality(Constituents(decisions[k].into)) >= 2
         /\ Standalone(decisions[k].t)

\* The input tracks that absorbed another track.
Absorbers ==
    {decisions[k].into : k \in {j \in 1..Len(decisions) :
                                  AbsorbedInto(decisions[j].t, decisions[j].into)}}

\* C19 as stated: after _merge_tracks returns, every Track object of the
\* input list has the end time, length and provenance it had before the call.
C19_InputTracksUntouched ==
    calls = 1 =>
        \A i \in Range(tracks) :
            /\ heap[i].end_time_local = heap0[i].end_time_local
            /\ heap[i].length = heap0[i].length
            /\ heap[i].file_names = heap0[i].file_names

\* C19 amended: _merge_tracks leaves an input Track object as it was iff no
\* track was absorbed into it; a Track that absorbed others is changed in
\* place: its provenance and length grow by those of each absorbed track and
\* its end time becomes the last absorbed track's. Start time and type of
\* every input track stay as they were.
C19_OnlyAbsorbersMutated ==
    calls = 1 =>
        \A i \in Range(tracks) :
            /\ heap[i] = heap0[i] <=> i \notin Absorbers
            /\ heap[i].start_time_local = heap0[i].start_time_local
            /\ heap[i].type = heap0[i].type
            /\ i \in Absorbers =>
                  /\ Len(heap[i].file_names) > Len(heap0[i].file_names)
                  /\ heap[i].length
                        = SumSeq([k \in 1..Len(heap[i].file_names) |->
                                     heap0[heap[i].file_names[k]].length])
                  /\ heap[i].end_time_local
                        = heap0[heap[i].file_names[Len(heap[i].file_names)]].end_time_local

\* C19 witness: an input track that absorbed two others and was changed,
\* while the absorbed tracks were not.
C19_Witness ==
    /\ calls = 1
    /\ \E i \in Range(tracks) :
         /\ Cardinality(Constituents(i)) = MaxTracks
         /\ heap[i] # heap0[i]
         /\ \A j \in Constituents(i) \ {i} : heap[j] = heap0[j]
(***************************************************************************)
(* The merger on three tracks of one type that start at T, T+600 s and     *)
(* T+5000 s (T = 0), the first ending by T+600 s and the second by         *)
(* T+1400 s, each 500 long, handed over in any order.                      *)
(***************************************************************************)
ScenarioStarts == <<0, 600, 5000>>
ScenarioLatestEnds == <<600, 1400, 5000>>

\* The ends tried for track k: from its start to its latest end.
ScenarioEnds(k) ==
    {ScenarioStarts[k]
        + (g * (ScenarioLatestEnds[k] - ScenarioStarts[k])) \div ScenarioGrid :
        g \in 0..ScenarioGrid}

Orders(n) == {f \in [1..n -> 1..n] : \A a, b \in 1..n : f[a] = f[b] => a = b}

InitScenarioA ==
    /\ LoaderIdle
    /\ GarminIdle
    /\ EntryIdle
    /\ tracks = <<1, 2, 3>>
    /\ \E ty \in Types, role \in Orders(3) :
         \E e \in [1..3 -> UNION {ScenarioEnds(k) : k \in 1..3}] :
            /\ \A i \in 1..3 : e[i] \in ScenarioEnds(role[i])
            /\ heap = [i \in 1..3 |->
                         ValidTrack(i, ty, ScenarioStarts[role[i]], e[i], Whole(500))]
    /\ heap0 = heap
    /\ merged = <<>>
    /\ decisions = <<>>
    /\ prev = None
    /\ calls = 0
    /\ filtered = None
    /\ filter_log = <<>>
    /\ year_range = None
    /\ special_file_names = {}

SpecScenarioA == InitScenarioA /\ [][NextMerge]_vars

\* The track of the scenario that starts at the k-th start time.
ScenarioTrack(k) ==
    CHOOSE i \in 1..3 : heap0[i].start_time_local = Some(ScenarioStarts[k])

\* Two entries: the first track with the second absorbed, then the third as
\* it was; the third was compared with the end of the second.
ScenarioTwoEntries ==
    LET a == ScenarioTrack(1)
        b == ScenarioTrack(2)
        c == ScenarioTrack(3)
    IN  /\ merged = <<a, c>>
        /\ heap[a].file_names = <<a, b>>
        /\ heap[c] = heap0[c]
        /\ decisions[2].t = c
        /\ decisions[2].dt = ScenarioStarts[3] - Val(heap0[b].end_time_local)

\* C17 as stated: with the first track ending at or before T+600 s and the
\* second at or before T+1400 s, the merger returns two entries: the first two
\* tracks merged, then the third, whose gap is taken from the second's end.
C17_ScenarioTwoEntries ==
    calls = 1 => ScenarioTwoEntries

\* C17 amended: with the first track ending strictly before T+600 s and the
\* second at or before T+1400 s, the merger returns two entries: the first two
\* tracks merged, then the third, whose gap is taken from the second's end.
\* With the first track ending exactly at T+600 s the gap to the second is 0
\* and the merger returns the three tracks as three entries.
C17_ScenarioTwoEntriesUnlessTouching ==
    calls = 1 =>
        IF Val(heap0[ScenarioTrack(1)].end_time_local) < ScenarioStarts[2]
        THEN ScenarioTwoEntries
        ELSE /\ merged = <<ScenarioTrack(1), ScenarioTrack(2), ScenarioTrack(3)>>
             /\ heap = heap0

\* C17 witness: the tracks came in another order than by start time, the
\* second ended at T+1400 s, exactly 3600 s before the third, and the result
\* has the two entries.
C17_Witness ==
    /\ calls = 1
    /\ ScenarioTrack(1) # 1
    /\ heap0[ScenarioTrack(2)].end_time_local = Some(ScenarioLatestEnds[2])
    /\ ScenarioTwoEntries

(***************************************************************************)
(* _filter_tracks                                                          *)
(***************************************************************************)
\* Instants of the filter's inputs: the first second of each year, counted
\* from the first year.
YearLen == 365 * 86400
Years == 0..MaxYear
YearOf(time) == time \div YearLen

\* Lengths of the filter's inputs, in 1/LenDenom of a unit.
Lengths == 0..MaxLen

\* int(x) of a float: truncation towards zero
IntOf(len) == IF len >= 0 THEN len \div LenDenom ELSE -((-len) \div LenDenom)

\* YearRange.contains(t): an inclusive interval of years, unbounded by default
YearRangeContains(yr, time) ==
    \/ yr = None
    \/ Val(yr).from_year <= YearOf(time) /\ YearOf(time) <= Val(yr).to_year

\* The reason a track is skipped for, or "keep".
FilterVerdictExactZero(t, yr) ==
    IF t.length = 0 THEN "empty track"
    ELSE IF t.start_time_local = None THEN "without start time"
    ELSE IF ~YearRangeContains(yr, Val(t.start_time_local)) THEN "wrong year"
    ELSE "keep"

\* lines 184-192: the if/elif chain
FilterVerdict(t, yr) ==
    IF IntOf(t.length) = 0 THEN "empty track"
    ELSE IF t.start_time_local = None THEN "without start time"
    ELSE IF ~YearRangeContains(yr, Val(t.start_time_local)) THEN "wrong year"
    ELSE "keep"

\* A loop body that sets the flag before it decides to keep the track.
FilterStepFlagFirst(st, t, yr, special) ==
    LET file_name == st.heap[t].file_names[1]
        verdict == FilterVerdict(st.heap[t], yr)
        flagged == [st EXCEPT !.heap[t].special = (file_name \in special)]
    IN  IF verdict = "keep"
        THEN [flagged EXCEPT !.filtered_tracks = Append(@, t)]
        ELSE [flagged EXCEPT !.log = Append(@, <<file_name, verdict>>)]

\* lines 182-194: one iteration
FilterStep(st, t, yr, special) ==
    LET file_name == st.heap[t].file_names[1]
        verdict == FilterVerdict(st.heap[t], yr)
    IN  IF verdict = "keep"
        THEN [st EXCEPT !.heap[t].special = (file_name \in special),
                        !.filtered_tracks = Append(@, t)]
        ELSE [st EXCEPT !.log = Append(@, <<file_name, verdict>>)]

RECURSIVE FilterLoop(_, _, _, _)
FilterLoop(st, ts, yr, special) ==
    IF ts = <<>> THEN st
    ELSE FilterLoop(FilterStep(st, Head(ts), yr, special), Tail(ts), yr, special)

\* lines 180-195: the whole method
FilterTracksOp(h, ts, yr, special) ==
    FilterLoop([filtered_tracks |-> <<>>, heap |-> h, log |-> <<>>], ts, yr, special)

(***************************************************************************)
(* Specification of the filter: any list of up to MaxFilterTracks tracks   *)
(* as a parser or a database record gives them, under any configuration.   *)
(***************************************************************************)
FilterShapes ==
    [length : Lengths, start : {None} \cup {Some(y * YearLen) : y \in Years}]

YearRanges ==
    {None} \cup {Some([from_year |-> a, to_year |-> b]) :
                    a \in Years, b \in Years}

InitFilter ==
    /\ LoaderIdle
    /\ GarminIdle
    /\ EntryIdle
    /\ \E n \in 0..MaxFilterTracks :
         /\ tracks = [i \in 1..n |-> i]
         /\ \E sh \in [1..n -> FilterShapes] :
              heap = [i \in 1..n |->
                        [file_names |-> <<i>>, type |-> "Run",
                         start_time_local |-> sh[i].start,
                         end_time_local |-> sh[i].start,
                         length |-> sh[i].length, special |-> FALSE]]
         /\ special_file_names \in SUBSET (1..n)
    /\ heap0 = heap
    /\ year_range \in {yr \in YearRanges :
                          yr # None => Val(yr).from_year <= Val(yr).to_year}
    /\ merged = <<>>
    /\ decisions = <<>>
    /\ prev = None
    /\ calls = 0
    /\ filtered = None
    /\ filter_log = <<>>

\* tracks = self._filter_tracks(tracks)
FilterTracks ==
    /\ filtered = None
    /\ LET r == FilterTracksOp(heap, tracks, year_range, special_file_names)
       IN  /\ filtered' = Some(r.filtered_tracks)
           /\ heap' = r.heap
           /\ filter_log' = r.log
    /\ UNCHANGED <<heap0, tracks, merged, decisions, prev, calls, year_range,
                   special_file_names>>
    /\ UNCHANGED <<loadVars, entryVars, garminVars>>

NextFilter == FilterTracks

SpecFilter == InitFilter /\ [][NextFilter]_vars

(***************************************************************************)
(* Properties of the filter                                                *)
(***************************************************************************)
Retained(i) == i \in Range(Val(filtered))

StartYearInRange(i) ==
    /\ heap[i].start_time_local # None
    /\ \/ year_range = None
       \/ /\ Val(year_range).from_year <= YearOf(Val(heap[i].start_time_local))
          /\ YearOf(Val(heap[i].start_time_local)) <= Val(year_range).to_year

\* C10 as stated: a track is retained iff its length is greater than 0, its
\* start time is present and its start year is within the year range; every
\* positive length, also one between 0 and 1, passes the length test.
C10_RetainedIffPositiveLength ==
    filtered # None =>
        \A i \in Range(tracks) :
            Retained(i) <=> (heap[i].length > 0 /\ StartYearInRange(i))

\* C10 amended: a track is retained iff its length truncated to an integer is
\* not 0 (for the non-negative lengths tracks have: length >= 1), its start
\* time is present and its start year is within the year range; a track of
\* length 0, and one of a length between 0 and 1, is rejected whatever the
\* year range.
C10_RetainedIffLengthAtLeastOne ==
    filtered # None =>
        \A i \in Range(tracks) :
            /\ Retained(i) <=> (heap[i].length >= Whole(1) /\ StartYearInRange(i))
            /\ heap[i].length < Whole(1) => ~Retained(i)

\* C10 witness: under a bounded year range, a track of a length between 0 and
\* 1 whose start year is in range is rejected, and a longer one is retained.
C10_Witness ==
    /\ filtered # None
    /\ year_range # None
    /\ \E i \in Range(tracks) :
         /\ heap[i].length > 0 /\ heap[i].length < Whole(1)
         /\ StartYearInRange(i) /\ ~Retained(i)
    /\ \E i \in Range(tracks) : Retained(i)

\* C11: after filtering, the special flag of every retained track is true iff
\* its first provenance file name is in the special file-name set; a rejected
\* track is left as it was, its flag included.
C11_SpecialIffFirstFileNamed ==
    filtered # None =>
        \A i \in Range(tracks) :
            /\ Retained(i) =>
                  (heap[i].special <=> heap[i].file_names[1] \in special_file_names)
            /\ ~Retained(i) => heap[i] = heap0[i]

\* C11 witness: a retained track flagged special beside a rejected track whose
\* file name is in the special set too.
C11_Witness ==
    /\ filtered # None
    /\ \E i \in Range(tracks) : Retained(i) /\ heap[i].special
    /\ \E i \in Range(tracks) :
         ~Retained(i) /\ heap[i].file_names[1] \in special_file_names
(***************************************************************************)
(* _load_data_tracks and _load_gpxfit_tracks: a ProcessPoolExecutor batch  *)
(***************************************************************************)
Units == 1..nunits

\* What parsing one file can do: return a Track, raise TrackLoadError, or
\* raise anything else.
ParseFates == {"ok", "TrackLoadError", "OtherError"}

GpxPath(i) == <<"gpx", i>>
FitPath(i) == <<"fit", i>>
FilePath(i) == <<"file", i>>

Returns(track) == [exc |-> None, track |-> Some(track)]
Raises(e) == [exc |-> Some(e), track |-> None]
NotRun == [exc |-> None, track |-> None]

\* lines 27-45: load_gpx_file / load_tcx_file / load_fit_file
LoadFile(file_name, fate) ==
    IF fate = "ok"
    THEN Returns([payload |-> file_name, name |-> file_name])
    ELSE Raises(fate)

\* A pairing that falls back on the fit file alone when the gpx file of the
\* pair cannot be parsed.
LoadGpxfitFileFallback(file_name_gpx, file_name_fit, gpx_fate, fit_fate) ==
    LET tgpx == LoadFile(file_name_gpx, gpx_fate)
        tfit == LoadFile(file_name_fit, fit_fate)
    IN  IF tgpx.exc = Some("TrackLoadError") THEN tfit
        ELSE IF tgpx.exc # None THEN tgpx
        ELSE IF tfit.exc # None THEN tfit
        ELSE Returns([Val(tfit.track) EXCEPT !.name = Val(tgpx.track).name])

\* lines 48-57: load_gpxfit_file
LoadGpxfitFile(file_name_gpx, file_name_fit, gpx_fate, fit_fate) ==
    LET tgpx == LoadFile(file_name_gpx, gpx_fate)
    IN  IF tgpx.exc # None THEN tgpx
        ELSE LET tfit == LoadFile(file_name_fit, fit_fate)
             IN  IF tfit.exc # None THEN tfit
                 ELSE Returns([Val(tfit.track) EXCEPT !.name = Val(tgpx.track).name])

\* The value a future is stored under in future_to_file_name (lines 224, 245).
KeyOf(kind, i) == IF kind = "gpxfit" THEN FitPath(i) ELSE FilePath(i)

\* What unit i's call does, given what parsing its file(s) does.
RunUnit(kind, i, fates) ==
    IF kind = "gpxfit"
    THEN LoadGpxfitFile(GpxPath(i), FitPath(i), fates[1], fates[2])
    ELSE LoadFile(FilePath(i), fates[1])

UnitFates(kind) ==
    IF kind = "gpxfit" THEN ParseFates \X ParseFates
    ELSE {<<f>> : f \in ParseFates}

HandledAny(e) == TRUE
HandledNone(e) == FALSE
\* lines 231, 254: except TrackLoadError
Handled(e) == e = "TrackLoadError"

JoinReadyNoWait(f) == TRUE
\* lines 222, 243: leaving the with block is executor.shutdown(wait=True),
\* which returns once every submitted call has run
JoinReady(f) == \A i \in DOMAIN f : f[i] = "done"

Running == {i \in Units : fut[i] = "running"}
Pending == {i \in Units : fut[i] = "pending"}

PutTrack(m, key, t) ==
    [k \in DOMAIN m \cup {key} |-> IF k = key THEN t ELSE m[k]]

InitLoad ==
    /\ load_kind \in {"single", "gpxfit"}
    /\ nunits \in 0..MaxFiles
    /\ pc = "submit"
    /\ submitted = 0
    /\ fut = [i \in 1..nunits |-> "unsubmitted"]
    /\ outcome = [i \in 1..nunits |-> [fates |-> <<>>, result |-> NotRun]]
    /\ done_order = <<>>
    /\ collected = {}
    /\ loaded_tracks = <<>>
    /\ error_log = <<>>
    /\ raised = None
    /\ pipeline = "loading"
    /\ EntryIdle
    /\ GarminIdle
    /\ heap = <<>>
    /\ heap0 = <<>>
    /\ tracks = <<>>
    /\ merged = <<>>
    /\ decisions = <<>>
    /\ prev = None
    /\ calls = 0
    /\ filtered = None
    /\ filter_log = <<>>
    /\ year_range = None
    /\ special_file_names = {}

\* lines 223-226, 244-249: executor.submit for the next file
Submit ==
    /\ pc = "submit"
    /\ submitted < nunits
    /\ submitted' = submitted + 1
    /\ fut' = [fut EXCEPT ![submitted + 1] = "pending"]
    /\ UNCHANGED <<load_kind, nunits, pc, outcome, done_order, collected,
                   loaded_tracks, error_log, raised, pipeline>>
    /\ UNCHANGED <<trackVars, entryVars, garminVars>>

\* The pool hands the oldest pending call to a free worker process.
WorkerStart(i) ==
    /\ fut[i] = "pending"
    /\ \A j \in Pending : i <= j
    /\ Cardinality(Running) < MaxWorkers
    /\ fut' = [fut EXCEPT ![i] = "running"]
    /\ UNCHANGED <<load_kind, nunits, pc, submitted, outcome, done_order,
                   collected, loaded_tracks, error_log, raised, pipeline>>
    /\ UNCHANGED <<trackVars, entryVars, garminVars>>

\* A worker's call returns or raises; the future holds the result.
WorkerFinish(i) ==
    /\ fut[i] = "running"
    /\ \E fates \in UnitFates(load_kind) :
         outcome' = [outcome EXCEPT ![i] =
                        [fates |-> fates, result |-> RunUnit(load_kind, i, fates)]]
    /\ fut' = [fut EXCEPT ![i] = "done"]
    /\ done_order' = Append(done_order, i)
    /\ UNCHANGED <<load_kind, nunits, pc, submitted, collected, loaded_tracks,
                   error_log, raised, pipeline>>
    /\ UNCHANGED <<trackVars, entryVars, garminVars>>

\* lines 222-226, 243-249: the end of the with block
ShutdownWait ==
    /\ pc = "submit"
    /\ submitted = nunits
    /\ JoinReady(fut)
    /\ pc' = "collect"
    /\ UNCHANGED <<load_kind, nunits, submitted, fut, outcome, done_order,
                   collected, loaded_tracks, error_log, raised, pipeline>>
    /\ UNCHANGED <<trackVars, entryVars, garminVars>>

\* lines 227-234, 250-257: one iteration over as_completed, which yields the
\* finished futures in no particular order
Collect(i) ==
    /\ pc = "collect"
    /\ i \in Units \ collected
    /\ fut[i] = "done"
    /\ collected' = collected \cup {i}
    /\ LET r == outcome[i].result
       IN  IF r.exc = None
           THEN /\ loaded_tracks' = PutTrack(loaded_tracks, KeyOf(load_kind, i),
                                             Val(r.track))
                /\ UNCHANGED <<error_log, raised, pc, pipeline>>
           ELSE IF Handled(Val(r.exc))
           THEN /\ error_log' = Append(error_log, KeyOf(load_kind, i))
                /\ UNCHANGED <<loaded_tracks, raised, pc, pipeline>>
           ELSE /\ raised' = r.exc
                /\ pc' = "raised"
                /\ pipeline' = "raised"
                /\ UNCHANGED <<loaded_tracks, error_log>>
    /\ UNCHANGED <<load_kind, nunits, submitted, fut, outcome, done_order>>
    /\ UNCHANGED <<trackVars, entryVars, garminVars>>

\* lines 235, 258: return tracks
Return ==
    /\ pc = "collect"
    /\ collected = Units
    /\ pc' = "returned"
    /\ UNCHANGED <<load_kind, nunits, submitted, fut, outcome, done_order,
                   collected, loaded_tracks, error_log, raised, pipeline>>
    /\ UNCHANGED <<trackVars, entryVars, garminVars>>

\* lines 92, 126, 130, 137: the entry point takes the mapping's values
PipelineExtend ==
    /\ pc = "returned"
    /\ pipeline = "loading"
    /\ pipeline' = "loaded"
    /\ UNCHANGED <<load_kind, nunits, pc, submitted, fut, outcome, done_order,
                   collected, loaded_tracks, error_log, raised>>
    /\ UNCHANGED <<trackVars, entryVars, garminVars>>

NextLoad ==
    \/ Submit
    \/ \E i \in Units : WorkerStart(i)
    \/ \E i \in Units : WorkerFinish(i)
    \/ ShutdownWait
    \/ \E i \in Units : Collect(i)
    \/ Return
    \/ PipelineExtend

SpecLoad == InitLoad /\ [][NextLoad]_vars

(***************************************************************************)
(* Properties of the loader                                                *)
(***************************************************************************)
Finished == {i \in Units : fut[i] = "done"}
FailedWith(e) == {i \in Finished : outcome[i].result.exc = Some(e)}
Succeeded == {i \in Finished : outcome[i].result.exc = None}
AllFinished == Finished = Units

\* C1: when K units of _load_data_tracks fail with TrackLoadError and none
\* fails otherwise, the call does not raise, and the mapping it returns has
\* exactly the N-K parsed paths as keys, each with its own track, and exactly
\* K error lines were logged, one per failed path, whatever order the units
\* finished in.
C1_PartialFailureTolerated ==
    (load_kind = "single" /\ AllFinished /\ FailedWith("OtherError") = {}) =>
        /\ pc # "raised"
        /\ pc = "returned" =>
             /\ DOMAIN loaded_tracks = {FilePath(i) : i \in Succeeded}
             /\ Cardinality(DOMAIN loaded_tracks)
                    = nunits - Cardinality(FailedWith("TrackLoadError"))
             /\ \A i \in Succeeded :
                    loaded_tracks[FilePath(i)].payload = FilePath(i)
             /\ Len(error_log) = Cardinality(FailedWith("TrackLoadError"))
             /\ Range(error_log) = {FilePath(i) : i \in FailedWith("TrackLoadError")}

\* C1 witness: a full batch returned with some files failed and some parsed,
\* whose units did not finish in submission order.
C1_Witness ==
    /\ load_kind = "single"
    /\ pc = "returned"
    /\ nunits = MaxFiles
    /\ FailedWith("TrackLoadError") # {}
    /\ Succeeded # {}
    /\ done_order[1] # 1

\* C2: once a unit has failed with something other than TrackLoadError, the
\* loader never returns a mapping: the result loop cannot run to its end, the
\* exception that leaves the loader is that failure, and the entry point
\* raises with it instead of going on to take tracks.
C2_OtherFailurePropagates ==
    /\ FailedWith("OtherError") # {} =>
         /\ pc # "returned"
         /\ pipeline # "loaded"
         /\ ~(pc = "collect" /\ collected = Units)
    /\ pc = "raised" =>
         /\ raised = Some("OtherError")
         /\ pipeline = "raised"
         /\ FailedWith("OtherError") \cap collected # {}

\* C2 witness: the loader raised after it had already stored a track and
\* logged a load error.
C2_Witness ==
    /\ pc = "raised"
    /\ load_kind = "single"
    /\ DOMAIN loaded_tracks # {}
    /\ error_log # <<>>

\* C2, the paired loader: raised by the fit parse of a pair whose gpx parsed.
C2_WitnessGpxfit ==
    /\ pc = "raised"
    /\ load_kind = "gpxfit"
    /\ \E i \in collected : outcome[i].fates = <<"ok", "OtherError">>

\* C3: nothing of a batch reaches the caller (no result handled, no error
\* logged, no exception raised, no return) before every submitted unit has
\* finished; while a unit is unfinished, a worker can always go on with some
\* unit, whatever its siblings did; and every finished unit ran its call.
C3_CallerWaitsForAll ==
    /\ (\/ pc \in {"collect", "returned", "raised"}
        \/ collected # {}
        \/ error_log # <<>>
        \/ raised # None
        \/ pipeline \in {"loaded", "raised"}) => AllFinished
    /\ (\E i \in Units : fut[i] \in {"pending", "running"}) =>
         \E j \in Units : ENABLED WorkerStart(j) \/ ENABLED WorkerFinish(j)
    /\ \A i \in Finished : outcome[i].fates # <<>>

\* C3 witness: every unit is submitted, one has failed, and a sibling is
\* still running while another is still waiting for a worker.
C3_Witness ==
    /\ submitted = nunits
    /\ pc = "submit"
    /\ \E i \in Finished : outcome[i].result.exc = Some("OtherError")
    /\ \E j \in Units : fut[j] = "running"
    /\ \E j \in Units : fut[j] = "pending"

(***************************************************************************)
(* The paired gpx+fit load                                                 *)
(***************************************************************************)
BothParse == {i \in Finished : outcome[i].fates = <<"ok", "ok">>}
EitherFails ==
    {i \in Finished : outcome[i].result.exc = Some("TrackLoadError")}

\* C20: a paired load that returns holds exactly one entry per pair whose gpx
\* parse and fit parse both succeed, under the pair's fit path, carrying the
\* fit payload and the gpx name; a pair one of whose parses fails with
\* TrackLoadError has no entry under either of its paths and one error line,
\* and this does not depend on what the other pairs did.
C20_PairedBothOrNothing ==
    (load_kind = "gpxfit" /\ pc = "returned") =>
        /\ DOMAIN loaded_tracks = {FitPath(i) : i \in BothParse}
        /\ Cardinality(DOMAIN loaded_tracks) = Cardinality(BothParse)
        /\ \A i \in BothParse :
               /\ loaded_tracks[FitPath(i)].payload = FitPath(i)
               /\ loaded_tracks[FitPath(i)].name = GpxPath(i)
        /\ \A i \in Units :
               (\/ outcome[i].fates[1] = "TrackLoadError"
                \/ outcome[i].fates[2] = "TrackLoadError") =>
                   /\ FitPath(i) \notin DOMAIN loaded_tracks
                   /\ GpxPath(i) \notin DOMAIN loaded_tracks
        /\ BothParse \cup EitherFails = Units
        /\ Range(error_log) = {FitPath(i) : i \in EitherFails}
        /\ Len(error_log) = Cardinality(EitherFails)

\* C20 witness: a full paired batch returned in which one pair lost its gpx
\* parse while its fit file was valid, one lost its fit parse while its gpx
\* file was valid, and one parsed both.
C20_Witness ==
    /\ load_kind = "gpxfit"
    /\ pc = "returned"
    /\ nunits = MaxFiles
    /\ \E i \in Units : outcome[i].fates = <<"TrackLoadError", "ok">>
    /\ \E i \in Units : outcome[i].fates = <<"ok", "TrackLoadError">>
    /\ BothParse # {}

(***************************************************************************)
(* _list_data_files                                                        *)
(***************************************************************************)
\* A file name is a sequence of pieces; the piece "." is the dot character
\* and no other piece holds a dot.
Stem(i) == ToString(i)
Suffixes == {"gpx", "fit"}

NamesOf(i) ==
    {<<Stem(i), ".", "gpx">>, <<Stem(i), ".", "fit">>,
     <<".", Stem(i), ".", "gpx">>, <<Stem(i), "gpx">>}
FileNames == UNION {NamesOf(i) : i \in 1..MaxEntries}

\* What os.listdir returns: the entries in some order, no name twice.
DirListings ==
    UNION {{es \in [1..n -> [name : FileNames, is_file : BOOLEAN]] :
              \A a, b \in 1..n : es[a].name = es[b].name => a = b} :
           n \in 0..MaxEntries}

NotADirectory == [is_dir |-> FALSE, entries |-> <<>>]
Directory(es) == [is_dir |-> TRUE, entries |-> es]

DirPath(d) == [abs |-> FALSE, dir |-> d]
Abspath(dp) == [dp EXCEPT !.abs = TRUE]
Join(dp, name) == [dir |-> dp, name |-> name]
Basename(path) == path.name
Isdir(f, dp) == f[dp.dir].is_dir
Listdir(f, dp) == f[dp.dir].entries
Isfile(f, path) ==
    \E k \in DOMAIN f[path.dir.dir].entries :
        LET e == f[path.dir.dir].entries[k]
        IN  e.name = path.name /\ e.is_file

StartsWith(name, prefix) ==
    Len(name) >= Len(prefix) /\ SubSeq(name, 1, Len(prefix)) = prefix
EndsWith(name, suffix) ==
    /\ Len(name) >= Len(suffix)
    /\ SubSeq(name, Len(name) - Len(suffix) + 1, Len(name)) = suffix

\* A scan that does not look at the synced-file set.
RECURSIVE ListLoopKeepSynced(_, _, _, _, _, _)
ListLoopKeepSynced(f, synced, data_dir, file_suffix, names, k) ==
    IF k > Len(names) THEN <<>>
    ELSE LET name == names[k].name
             path_name == Join(data_dir, name)
             rest == ListLoopKeepSynced(f, synced, data_dir, file_suffix, names, k + 1)
         IN  IF StartsWith(name, <<".">>) THEN rest
             ELSE IF EndsWith(name, <<".", file_suffix>>) /\ Isfile(f, path_name)
                  THEN <<path_name>> \o rest
             ELSE rest

\* lines 266-273: the paths the generator yields from entry k on
RECURSIVE ListLoop(_, _, _, _, _, _)
ListLoop(f, synced, data_dir, file_suffix, names, k) ==
    IF k > Len(names) THEN <<>>
    ELSE LET name == names[k].name
             path_name == Join(data_dir, name)
             rest == ListLoop(f, synced, data_dir, file_suffix, names, k + 1)
         IN  IF StartsWith(name, <<".">>) THEN rest
             ELSE IF name \in synced THEN rest
             ELSE IF EndsWith(name, <<".", file_suffix>>) /\ Isfile(f, path_name)
                  THEN <<path_name>> \o rest
             ELSE rest

\* A scan that takes a path that is not a directory for an empty directory.
ListDataFilesOpLenient(f, synced, data_dir, file_suffix) ==
    LET abs_dir == Abspath(data_dir)
    IN  [exc |-> None,
         paths |-> ListLoop(f, synced, abs_dir, file_suffix, Listdir(f, abs_dir), 1)]

\* lines 261-273, run to exhaustion as [x for x in ...] does
ListDataFilesOp(f, synced, data_dir, file_suffix) ==
    LET abs_dir == Abspath(data_dir)
    IN  IF ~Isdir(f, abs_dir)
        THEN [exc |-> Some("ParameterError"), paths |-> <<>>]
        ELSE [exc |-> None,
              paths |-> ListLoop(f, synced, abs_dir, file_suffix,
                                 Listdir(f, abs_dir), 1)]

\* Five files, one of them hidden and one already synced.
ScenarioBEntries ==
    <<[name |-> <<"1", ".", "gpx">>, is_file |-> TRUE],
      [name |-> <<".", "foo", ".", "gpx">>, is_file |-> TRUE],
      [name |-> <<"2", ".", "gpx">>, is_file |-> TRUE],
      [name |-> <<"3", ".", "gpx">>, is_file |-> TRUE],
      [name |-> <<"4", ".", "gpx">>, is_file |-> TRUE]>>
ScenarioBSynced == {<<"2", ".", "gpx">>}

InitList ==
    /\ TracksIdle
    /\ LoaderIdle
    /\ GarminIdle
    /\ entry_point = "_list_data_files"
    /\ \E x \in Suffixes :
         args = [data_dir |-> DirPath("data_dir"), file_suffix |-> x]
    /\ \/ /\ fs = [d \in {"data_dir"} |-> NotADirectory]
          /\ synced_files = {}
       \/ \E es \in DirListings :
            /\ fs = [d \in {"data_dir"} |-> Directory(es)]
            /\ synced_files \in SUBSET {es[k].name : k \in DOMAIN es}
       \/ /\ fs = [d \in {"data_dir"} |-> Directory(ScenarioBEntries)]
          /\ synced_files = ScenarioBSynced
    /\ stage = "start"
    /\ listed = <<>>
    /\ id_sets = None
    /\ batches = <<>>
    /\ pre_tracks = <<>>
    /\ entry_raised = None
    /\ returned = None

\* lines 261-273: one scan of a directory
ListDataFiles ==
    /\ entry_point = "_list_data_files"
    /\ stage = "start"
    /\ LET r == ListDataFilesOp(fs, synced_files, args.data_dir, args.file_suffix)
       IN  IF r.exc # None
           THEN /\ entry_raised' = r.exc
                /\ stage' = "raised"
                /\ UNCHANGED listed
           ELSE /\ listed' = Append(listed, r.paths)
                /\ stage' = "listed"
                /\ UNCHANGED entry_raised
    /\ UNCHANGED <<fs, synced_files, entry_point, args, id_sets, batches,
                   pre_tracks, returned>>
    /\ UNCHANGED <<trackVars, loadVars, garminVars>>

NextList == ListDataFiles

SpecList == InitList /\ [][NextList]_vars

(***************************************************************************)
(* Properties of _list_data_files                                          *)
(***************************************************************************)
Eligible(e, file_suffix) ==
    /\ e.is_file
    /\ e.name[1] # "."
    /\ e.name \notin synced_files
    /\ Len(e.name) >= 2
    /\ e.name[Len(e.name) - 1] = "."
    /\ e.name[Len(e.name)] = file_suffix

TimesYielded(out, name) ==
    Cardinality({j \in DOMAIN out :
                    out[j].name = name /\ out[j].dir.dir = "data_dir"})

\* C14: a scan that ends yields, for every entry of the directory, its path
\* once if the entry is a regular file whose name does not start with ".",
\* is not in the synced-file set and ends with "." and the suffix, and never
\* otherwise; and it yields nothing that is not an entry of the directory.
C14_YieldsExactlyEligible ==
    (entry_point = "_list_data_files" /\ stage = "listed") =>
        LET out == listed[1]
            es == fs["data_dir"].entries
        IN  /\ \A k \in DOMAIN es :
                   TimesYielded(out, es[k].name)
                       = IF Eligible(es[k], args.file_suffix) THEN 1 ELSE 0
            /\ \A j \in DOMAIN out :
                   \E k \in DOMAIN es : out[j] = Join(Abspath(args.data_dir), es[k].name)
            /\ Len(out) = Cardinality({k \in DOMAIN es :
                                          Eligible(es[k], args.file_suffix)})

\* C14 witness: the directory of five files, one hidden and one synced, has
\* been scanned for gpx files and three paths were yielded.
C14_Witness ==
    /\ entry_point = "_list_data_files"
    /\ stage = "listed"
    /\ Len(fs["data_dir"].entries) = 5
    /\ \E k \in 1..5 : fs["data_dir"].entries[k].name[1] = "."
    /\ Cardinality(synced_files) = 1
    /\ Len(listed[1]) = 3

\* C14 witness: a name that ends with the suffix but is not a regular file,
\* and a name that holds the suffix without the dot, were both passed over.
C14_WitnessNotAFile ==
    /\ entry_point = "_list_data_files"
    /\ stage = "listed"
    /\ listed[1] = <<>>
    /\ \E k \in DOMAIN fs["data_dir"].entries :
         LET e == fs["data_dir"].entries[k]
         IN  ~e.is_file /\ e.name = <<Stem(1), ".", args.file_suffix>>
    /\ \E k \in DOMAIN fs["data_dir"].entries :
         LET e == fs["data_dir"].entries[k]
         IN  e.is_file /\ e.name = <<Stem(2), args.file_suffix>>

(***************************************************************************)
(* load_tracks and load_tracks_gpxfit, up to the list handed to            *)
(* _filter_tracks                                                          *)
(***************************************************************************)
Ids == 1..MaxIds

\* os.path.splitext on a name: split before the last dot, unless nothing but
\* dots comes before it
SplitExt(name) ==
    LET dots == {k \in DOMAIN name : name[k] = "."}
        d == IF dots = {} THEN 0 ELSE CHOOSE k \in dots : \A j \in dots : j <= k
    IN  IF d = 0 \/ \A k \in 1..(d - 1) : name[k] = "."
        THEN <<name, <<>>>>
        ELSE <<SubSeq(name, 1, d - 1), SubSeq(name, d, Len(name))>>

\* lines 106-107
IdOf(path) == SplitExt(Basename(path))[1]

FitUniqIdAll(fit_ids, fitgpxid) == fit_ids
GpxUniqIdAll(gpx_ids, fitgpxid) == gpx_ids
\* line 110
FitGpxId(fit_ids, gpx_ids) == fit_ids \cap gpx_ids
\* line 111
FitUniqId(fit_ids, fitgpxid) == fit_ids \ fitgpxid
\* line 112
GpxUniqId(gpx_ids, fitgpxid) == gpx_ids \ fitgpxid

\* lines 106-112
ReconcileOp(gpx_file_names, fit_file_names) ==
    LET gpx_ids == {IdOf(gpx_file_names[k]) : k \in DOMAIN gpx_file_names}
        fit_ids == {IdOf(fit_file_names[k]) : k \in DOMAIN fit_file_names}
        fitgpxid == FitGpxId(fit_ids, gpx_ids)
    IN  [fitgpxid |-> fitgpxid,
         fituniqid |-> FitUniqId(fit_ids, fitgpxid),
         gpxuniqid |-> GpxUniqId(gpx_ids, fitgpxid)]

\* The order a set is iterated in.  The order the loader's results come back
\* in is free whatever the order of submission, so one order is enough here.
RECURSIVE SeqOfSet(_)
SeqOfSet(S) ==
    IF S = {} THEN <<>>
    ELSE LET x == CHOOSE y \in S : TRUE IN <<x>> \o SeqOfSet(S \ {x})

\* lines 114, 115: [os.path.join(dir, x + ".gpx") for x in ids]
UniqFiles(dir, ids, suffix) ==
    LET xs == SeqOfSet(ids)
    IN  [k \in DOMAIN xs |-> <<Join(dir, xs[k] \o <<".", suffix>>)>>]

\* lines 117-118 and 245: the pairs (gpxfiles[ifile], fitfiles[ifile])
PairFiles(gpx_dir, fit_dir, ids) ==
    LET xs == SeqOfSet(ids)
        fitgpx_fitfile == [k \in DOMAIN xs |-> Join(fit_dir, xs[k] \o <<".", "fit">>)]
        fitgpx_gpxfile == [k \in DOMAIN xs |-> Join(gpx_dir, xs[k] \o <<".", "gpx">>)]
    IN  [ifile \in DOMAIN xs |-> <<fitgpx_gpxfile[ifile], fitgpx_fitfile[ifile]>>]

\* lines 224, 245: the file name a future is filed under
UnitKey(unit) == unit[Len(unit)]

\* lines 224, 245: load_func(file_name), load_func(gpxfile, fitfile)
CallUnit(unit, fates) ==
    IF Len(unit) = 2
    THEN LoadGpxfitFile(unit[1], unit[2], fates[1], fates[2])
    ELSE LoadFile(unit[1], fates[1])

\* What parsing the files of one unit can do; the fit parse of a pair is not
\* reached when its gpx parse raises.
FatesOf(arity) ==
    IF arity = 2
    THEN {f \in ParseFates \X ParseFates : f[1] # "ok" => f[2] = "ok"}
    ELSE {<<f>> : f \in ParseFates}

\* lines 234, 257: tracks[file_name] = t, a dict keeping insertion order
PutOrdered(items, key, t) ==
    IF \E k \in DOMAIN items : items[k].file_name = key
    THEN [k \in DOMAIN items |->
            IF items[k].file_name = key THEN [file_name |-> key, track |-> t]
            ELSE items[k]]
    ELSE Append(items, [file_name |-> key, track |-> t])

\* lines 227-234, 250-257: the result loop from the k-th completed future on
RECURSIVE CollectLoop(_, _, _, _, _)
CollectLoop(units, results, order, k, st) ==
    IF k > Len(order) THEN st
    ELSE LET r == results[order[k]]
             file_name == UnitKey(units[order[k]])
         IN  IF r.exc = None
             THEN CollectLoop(units, results, order, k + 1,
                      [st EXCEPT !.tracks = PutOrdered(@, file_name, Val(r.track))])
             ELSE IF Handled(Val(r.exc))
             THEN CollectLoop(units, results, order, k + 1,
                      [st EXCEPT !.errors = Append(@, file_name)])
             ELSE [st EXCEPT !.exc = r.exc]

\* lines 217-235, 238-258: a whole loader call, given what each parse does
\* and the order the futures complete in
LoadTracksOp(units, fates, order) ==
    CollectLoop(units, [i \in DOMAIN units |-> CallUnit(units[i], fates[i])],
                order, 1, [tracks |-> <<>>, errors |-> <<>>, exc |-> None])

\* lines 92, 126, 130, 137: loaded_tracks.values()
Values(items) == [k \in DOMAIN items |-> items[k].track]

\* A directory holding the files <id>.<suffix> of some identifiers.
DirOf(S, suffix) ==
    LET xs == SeqOfSet(S)
    IN  Directory([k \in DOMAIN xs |->
                     [name |-> <<Stem(xs[k]), ".", suffix>>, is_file |-> TRUE]])
DirsOf(suffix) == {NotADirectory} \cup {DirOf(S, suffix) : S \in SUBSET Ids}

InitEntry ==
    /\ TracksIdle
    /\ LoaderIdle
    /\ GarminIdle
    /\ \/ /\ entry_point = "load_tracks"
          /\ \E x \in Suffixes :
               /\ args = [data_dir |-> DirPath("data_dir"), file_suffix |-> x]
               /\ \E d \in DirsOf(x) : fs = [n \in {"data_dir"} |-> d]
       \/ /\ entry_point = "load_tracks_gpxfit"
          /\ args = [gpx_dir |-> DirPath("gpx_dir"), fit_dir |-> DirPath("fit_dir")]
          /\ \E g \in DirsOf("gpx"), f \in DirsOf("fit") :
               fs = [n \in {"gpx_dir", "fit_dir"} |-> IF n = "gpx_dir" THEN g ELSE f]
    /\ synced_files \in SUBSET {<<Stem(1), ".", "gpx">>}
    /\ stage = "start"
    /\ listed = <<>>
    /\ id_sets = None
    /\ batches = <<>>
    /\ pre_tracks = <<>>
    /\ entry_raised = None
    /\ returned = None

\* lines 83, 104, 105: [x for x in self._list_data_files(dir, suffix)]
ListInto(data_dir, file_suffix, next_stage) ==
    /\ LET r == ListDataFilesOp(fs, synced_files, data_dir, file_suffix)
       IN  IF r.exc # None
           THEN /\ entry_raised' = r.exc
                /\ stage' = "raised"
                /\ UNCHANGED listed
           ELSE /\ listed' = Append(listed, r.paths)
                /\ stage' = next_stage
                /\ UNCHANGED entry_raised
    /\ UNCHANGED <<fs, synced_files, entry_point, args, id_sets, batches,
                   pre_tracks, returned>>
    /\ UNCHANGED <<trackVars, loadVars, garminVars>>

\* lines 88-92, 123-126, 127-130, 134-137: one loader call and
\* tracks.extend(loaded_tracks.values())
LoadBatch(units, arity, next_stage) ==
    /\ \E fates \in [DOMAIN units -> FatesOf(arity)], order \in Orders(Len(units)) :
         LET r == LoadTracksOp(units, fates, order)
         IN  IF r.exc # None
             THEN /\ entry_raised' = r.exc
                  /\ stage' = "raised"
                  /\ batches' = Append(batches,
                        [units |-> units, failed |-> {}, exc |-> r.exc])
                  /\ UNCHANGED pre_tracks
             ELSE /\ batches' = Append(batches,
                        [units |-> units, failed |-> Range(r.errors), exc |-> None])
                  /\ pre_tracks' = pre_tracks \o Values(r.tracks)
                  /\ stage' = next_stage
                  /\ UNCHANGED entry_raised
    /\ UNCHANGED <<fs, synced_files, entry_point, args, listed, id_sets, returned>>
    /\ UNCHANGED <<trackVars, loadVars, garminVars>>

\* line 83
ListFiles ==
    /\ entry_point = "load_tracks"
    /\ stage = "start"
    /\ ListInto(args.data_dir, args.file_suffix, "listed")

\* lines 86-92
LoadAllFiles ==
    /\ entry_point = "load_tracks"
    /\ stage = "listed"
    /\ LoadBatch([k \in DOMAIN listed[1] |-> <<listed[1][k]>>], 1, "loaded")

\* line 104
ListGpx ==
    /\ entry_point = "load_tracks_gpxfit"
    /\ stage = "start"
    /\ ListInto(args.gpx_dir, "gpx", "listed_gpx")

\* line 105
ListFit ==
    /\ entry_point = "load_tracks_gpxfit"
    /\ stage = "listed_gpx"
    /\ ListInto(args.fit_dir, "fit", "listed_fit")

\* lines 106-120
Reconcile ==
    /\ entry_point = "load_tracks_gpxfit"
    /\ stage = "listed_fit"
    /\ id_sets' = Some(ReconcileOp(listed[1], listed[2]))
    /\ stage' = "reconciled"
    /\ UNCHANGED <<fs, synced_files, entry_point, args, listed, batches,
                   pre_tracks, entry_raised, returned>>
    /\ UNCHANGED <<trackVars, loadVars, garminVars>>

\* lines 122-126
LoadGpxOnly ==
    /\ entry_point = "load_tracks_gpxfit"
    /\ stage = "reconciled"
    /\ LoadBatch(UniqFiles(args.gpx_dir, Val(id_sets).gpxuniqid, "gpx"), 1,
                 "loaded_gpx")

\* lines 127-131
LoadFitOnly ==
    /\ entry_point = "load_tracks_gpxfit"
    /\ stage = "loaded_gpx"
    /\ LoadBatch(UniqFiles(args.fit_dir, Val(id_sets).fituniqid, "fit"), 1,
                 "loaded_fit")

\* lines 134-138
LoadPairs ==
    /\ entry_point = "load_tracks_gpxfit"
    /\ stage = "loaded_fit"
    /\ LoadBatch(PairFiles(args.gpx_dir, args.fit_dir, Val(id_sets).fitgpxid), 2,
                 "loaded")

NextEntry ==
    \/ ListFiles
    \/ LoadAllFiles
    \/ ListGpx
    \/ ListFit
    \/ Reconcile
    \/ LoadGpxOnly
    \/ LoadFitOnly
    \/ LoadPairs

SpecEntry == InitEntry /\ [][NextEntry]_vars

(***************************************************************************)
(* Properties of the entry points                                          *)
(***************************************************************************)
\* The name of a listed file without its last two pieces, "." and the suffix.
BaseName(path) == SubSeq(path.name, 1, Len(path.name) - 2)
BaseNames(paths) == {BaseName(paths[j]) : j \in DOMAIN paths}
TokenIds(S) == {<<Stem(i)>> : i \in S}

\* C12: once load_tracks_gpxfit has reconciled the two listings, the gpx-only,
\* fit-only and both sets are pairwise disjoint, their union is the set of
\* base names listed in either directory, and each is what its name says;
\* fit ids {1,2,3} against gpx ids {2,3,4} give {1}, {4} and {2,3}.
C12_PartitionExact ==
    id_sets # None =>
        LET s == Val(id_sets)
            gpx == BaseNames(listed[1])
            fit == BaseNames(listed[2])
        IN  /\ s.gpxuniqid \cap s.fituniqid = {}
            /\ s.gpxuniqid \cap s.fitgpxid = {}
            /\ s.fituniqid \cap s.fitgpxid = {}
            /\ s.gpxuniqid \cup s.fituniqid \cup s.fitgpxid = gpx \cup fit
            /\ s.fitgpxid = gpx \cap fit
            /\ s.fituniqid = fit \ gpx
            /\ s.gpxuniqid = gpx \ fit
            /\ (fit = TokenIds({1, 2, 3}) /\ gpx = TokenIds({2, 3, 4})) =>
                   /\ s.fituniqid = TokenIds({1})
                   /\ s.gpxuniqid = TokenIds({4})
                   /\ s.fitgpxid = TokenIds({2, 3})

\* C12 witness: fit files 1, 2, 3 and gpx files 2, 3, 4 have been reconciled.
C12_Witness ==
    /\ id_sets # None
    /\ BaseNames(listed[2]) = TokenIds({1, 2, 3})
    /\ BaseNames(listed[1]) = TokenIds({2, 3, 4})
    /\ Val(id_sets).fitgpxid = TokenIds({2, 3})

\* The units of loader call b that name a file of identifier id.
SubmittedIn(id, b) ==
    {k \in DOMAIN batches[b].units :
        \E j \in DOMAIN batches[b].units[k] : BaseName(batches[b].units[k][j]) = id}
TimesSubmitted(id) ==
    SumSeq([b \in DOMAIN batches |-> Cardinality(SubmittedIn(id, b))])
ListedIds == UNION {BaseNames(listed[k]) : k \in DOMAIN listed}
TracksOf(id) == {a \in DOMAIN pre_tracks : BaseName(pre_tracks[a].payload) = id}

\* C13: in load_tracks_gpxfit no identifier is submitted to the loader more
\* than once, and once the three loads are through every listed identifier
\* was submitted exactly once: in the first load if it has a gpx file only,
\* in the second if it has a fit file only, in the third if it has both; the
\* track list holds at most one Track per identifier, and the Track of an
\* identifier with both files has the fit file as payload and the gpx
\* file's name.
C13_OneTrackPerIdentifier ==
    entry_point = "load_tracks_gpxfit" =>
        /\ \A id \in ListedIds :
               /\ TimesSubmitted(id) <= 1
               /\ Cardinality(TracksOf(id)) <= 1
               /\ stage = "loaded" =>
                    /\ TimesSubmitted(id) = 1
                    /\ SubmittedIn(id, 1) # {} <=>
                         id \in BaseNames(listed[1]) \ BaseNames(listed[2])
                    /\ SubmittedIn(id, 2) # {} <=>
                         id \in BaseNames(listed[2]) \ BaseNames(listed[1])
                    /\ SubmittedIn(id, 3) # {} <=>
                         id \in BaseNames(listed[1]) \cap BaseNames(listed[2])
        /\ \A a \in DOMAIN pre_tracks :
               LET id == BaseName(pre_tracks[a].payload)
               IN  /\ id \in ListedIds
                   /\ id \in BaseNames(listed[1]) \cap BaseNames(listed[2]) =>
                        /\ pre_tracks[a].payload
                               = Join(args.fit_dir, id \o <<".", "fit">>)
                        /\ pre_tracks[a].name
                               = Join(args.gpx_dir, id \o <<".", "gpx">>)

\* C13 witness: all three loads are through, each had something to load, and
\* the list holds a Track made from a pair.
C13_Witness ==
    /\ entry_point = "load_tracks_gpxfit"
    /\ stage = "loaded"
    /\ \A b \in 1..3 : batches[b].units # <<>>
    /\ \E a \in DOMAIN pre_tracks :
         /\ pre_tracks[a].payload.dir = args.fit_dir
         /\ pre_tracks[a].name.dir = args.gpx_dir
         /\ BaseName(pre_tracks[a].payload) = BaseName(pre_tracks[a].name)

BadInput == \E d \in DOMAIN fs : ~fs[d].is_dir

\* C15: when a directory given to load_tracks or load_tracks_gpxfit is not a
\* directory, the loader is never called (no unit is submitted, no file is
\* parsed), no track is collected and nothing is returned; the entry point
\* can only go on to the scan that fails, and it ends raising ParameterError.
C15_NotADirectoryAborts ==
    (entry_point \in {"load_tracks", "load_tracks_gpxfit"} /\ BadInput) =>
        /\ batches = <<>>
        /\ pre_tracks = <<>>
        /\ id_sets = None
        /\ returned = None
        /\ stage \in {"start", "listed_gpx", "raised"}
        /\ stage = "listed_gpx" => ~fs["fit_dir"].is_dir
        /\ stage = "raised" => entry_raised = Some("ParameterError")
        /\ stage # "raised" => ENABLED NextEntry

\* C15 witness: load_tracks_gpxfit raised on its second directory after it
\* had listed gpx files in the first.
C15_Witness ==
    /\ entry_point = "load_tracks_gpxfit"
    /\ stage = "raised"
    /\ entry_raised = Some("ParameterError")
    /\ Len(listed) = 1
    /\ listed[1] # <<>>
    /\ ~fs["fit_dir"].is_dir

\* C15 witness: load_tracks raised on its directory.
C15_WitnessLoadTracks ==
    /\ entry_point = "load_tracks"
    /\ stage = "raised"
    /\ entry_raised = Some("ParameterError")
    /\ listed = <<>>

(***************************************************************************)
(* The end of load_tracks, load_tracks_gpxfit and load_tracks_from_db:     *)
(* filter, merge, then drop what is shorter than min_length                *)
(***************************************************************************)
\* lines 100, 145, 178: [t for t in tracks if t.length >= self.min_length]
MinLengthCut(h, ts) == SelectSeq(ts, LAMBDA i : h[i].length >= Whole(MinLength))

\* An end that drops the short tracks before it merges.
PostLoadCutFirst(h, ts, yr, special) ==
    LET f == FilterTracksOp(h, ts, yr, special)
        m == MergeTracksOp(f.heap, MinLengthCut(f.heap, f.filtered_tracks))
    IN  [filtered_tracks |-> f.filtered_tracks, log |-> f.log,
         merged |-> m.merged, decisions |-> m.decisions, heap |-> m.heap,
         result |-> m.merged]

\* lines 95-100, 140-145, 174-178
PostLoadOp(h, ts, yr, special) ==
    LET f == FilterTracksOp(h, ts, yr, special)
        m == MergeTracksOp(f.heap, f.filtered_tracks)
    IN  [filtered_tracks |-> f.filtered_tracks, log |-> f.log,
         merged |-> m.merged, decisions |-> m.decisions, heap |-> m.heap,
         result |-> MinLengthCut(m.heap, m.merged)]

\* Lengths around the cutoff: nothing, half of it, all of it.
TailLengths == {0, Whole(MinLength) \div 2, Whole(MinLength)}

EntryPoints == {"load_tracks", "load_tracks_gpxfit", "load_tracks_from_db"}

\* The entry point has its list of loaded tracks and is about to filter it.
InitTail ==
    /\ LoaderIdle
    /\ GarminIdle
    /\ entry_point \in EntryPoints
    /\ stage = "loaded"
    /\ fs = <<>>
    /\ synced_files = {}
    /\ args = <<>>
    /\ listed = <<>>
    /\ id_sets = None
    /\ batches = <<>>
    /\ pre_tracks = <<>>
    /\ entry_raised = None
    /\ returned = None
    /\ \E n \in 0..MaxTailTracks :
         /\ tracks = [i \in 1..n |-> i]
         /\ \E sh \in [1..n -> Shapes], len \in [1..n -> TailLengths] :
              heap = [i \in 1..n |->
                        ValidTrack(i, sh[i].type, sh[i].start, sh[i].end, len[i])]
    /\ heap0 = heap
    /\ merged = <<>>
    /\ decisions = <<>>
    /\ prev = None
    /\ calls = 0
    /\ filtered = None
    /\ filter_log = <<>>
    /\ year_range = None
    /\ special_file_names = {}

\* lines 95-100, 140-145, 174-178: the same three statements in each
PostLoad ==
    /\ stage = "loaded"
    /\ LET r == PostLoadOp(heap, tracks, year_range, special_file_names)
       IN  /\ filtered' = Some(r.filtered_tracks)
           /\ filter_log' = r.log
           /\ merged' = r.merged
           /\ decisions' = r.decisions
           /\ heap' = r.heap
           /\ returned' = Some(r.result)
    /\ calls' = calls + 1
    /\ stage' = "returned"
    /\ UNCHANGED <<heap0, tracks, prev, year_range, special_file_names>>
    /\ UNCHANGED <<fs, synced_files, entry_point, args, listed, id_sets, batches,
                   pre_tracks, entry_raised>>
    /\ UNCHANGED <<loadVars, garminVars>>

\* lines 95-100
LoadTracksReturn ==
    /\ entry_point = "load_tracks"
    /\ PostLoad

\* lines 140-145
LoadTracksGpxfitReturn ==
    /\ entry_point = "load_tracks_gpxfit"
    /\ PostLoad

\* lines 174-178
LoadTracksFromDbReturn ==
    /\ entry_point = "load_tracks_from_db"
    /\ PostLoad

NextTail ==
    \/ LoadTracksReturn
    \/ LoadTracksGpxfitReturn
    \/ LoadTracksFromDbReturn

SpecTail == InitTail /\ [][NextTail]_vars

(***************************************************************************)
(* Properties of the end of the entry points                               *)
(***************************************************************************)
PassesFilter(i) == heap0[i].length \div LenDenom # 0
EntriesHolding(i) == {e \in Range(merged) : i \in Range(heap[e].file_names)}
InResult(i) == \E e \in Range(Val(returned)) : i \in Range(heap[e].file_names)

\* C16: when an entry point returns, every returned track is at least
\* min_length long; the returned list is the merged list without its entries
\* shorter than min_length; every loaded track that passes the filter is in
\* exactly one merged entry, whose length is the sum of the lengths its
\* segments were loaded with, and is part of the result exactly when that
\* sum is at least min_length, however short the segment itself is.
C16_CutoffAfterMerge ==
    (entry_point \in EntryPoints /\ stage = "returned") =>
        LET res == Val(returned)
        IN  /\ \A e \in Range(res) : heap[e].length >= Whole(MinLength)
            /\ res = SelectSeq(merged, LAMBDA e : e \in Range(res))
            /\ \A e \in Range(merged) :
                   /\ e \in Range(res) <=> heap[e].length >= Whole(MinLength)
                   /\ heap[e].length
                          = SumSeq([k \in DOMAIN heap[e].file_names |->
                                       heap0[heap[e].file_names[k]].length])
            /\ \A i \in Range(tracks) :
                   IF PassesFilter(i)
                   THEN /\ Cardinality(EntriesHolding(i)) = 1
                        /\ InResult(i) <=>
                             \E e \in EntriesHolding(i) :
                                 heap[e].length >= Whole(MinLength)
                   ELSE EntriesHolding(i) = {} /\ ~InResult(i)

\* C16 witness: a returned track made of two segments, each shorter than
\* min_length.
C16_Witness ==
    /\ stage = "returned"
    /\ entry_point \in EntryPoints
    /\ \E e \in Range(Val(returned)) :
         /\ Len(heap[e].file_names) = 2
         /\ \A k \in 1..2 :
                heap0[heap[e].file_names[k]].length < Whole(MinLength)

(***************************************************************************)
(* garmin_sync_garth.py: Garmin.login, Garmin.get_activities and           *)
(* download_new_activities                                                 *)
(***************************************************************************)
\* What garth.client.dumps() returns, and what a caller may have stored in
\* Garmin.token beforehand.
DumpedToken == "token"

\* lines 87-106: the body of login(), given whether garth.load, garth.login
\* and garth.client.dumps return (TRUE) or raise (FALSE)
LoginOp(tok, logged, load_ok, login_ok, dumps_ok) ==
    LET loaded ==
            IF tok # None
            THEN IF load_ok
                 THEN [is_login |-> TRUE, exc |-> None]
                 ELSE [is_login |-> FALSE,
                       exc |-> Some("GarminConnectConnectionError")]
            ELSE [is_login |-> logged, exc |-> None]
    IN  IF loaded.exc # None
        THEN [token |-> tok, is_login |-> FALSE, exc |-> loaded.exc]
        ELSE IF loaded.is_login = FALSE
        THEN IF login_ok /\ dumps_ok
             THEN [token |-> Some(DumpedToken), is_login |-> TRUE, exc |-> None]
             ELSE [token |-> tok, is_login |-> FALSE, exc |-> None]
        ELSE [token |-> tok, is_login |-> TRUE, exc |-> None]

\* line 86: @retry(stop=stop_after_attempt(5), ...) gives up after the
\* attempt with this number
RetryStops(attempt) == attempt >= StopAfterAttempt

\* line 300: list(set(activity_ids) - set(downloaded_ids))
ToGenerate(ids, downloaded) == SeqOfSet(Range(ids) \ Range(downloaded))

\* A download whose exception is not caught.
DownloadGarminDataUncaught(fate) == IF fate = "ok" THEN "saved" ELSE "raised"
\* lines 234-256: download_garmin_data, given whether the download, the
\* write and the unzip go through ("ok") or one of them raises
DownloadGarminData(fate) == IF fate = "ok" THEN "saved" ELSE "failed"

SemaphoreFreeAlways(inside) == TRUE
\* lines 279, 282: asyncio.Semaphore(n) lets a task in while fewer than n are
SemaphoreFree(inside) == inside < SemaphoreLimit

Inside == {k \in DOMAIN task : task[k] = "inside"}

InitGarmin ==
    /\ TracksIdle
    /\ LoaderIdle
    /\ EntryIdle
    /\ garmin_pc = "login"
    /\ token \in {None, Some(DumpedToken)}
    /\ is_login = FALSE
    /\ attempt_number = 0
    /\ login_from = "download_new_activities"
    /\ login_log = <<>>
    /\ api_log = <<>>
    /\ activity_ids = None
    /\ downloaded_ids \in {<<>>, <<Stem(1)>>}
    /\ to_generate_garmin_ids = None
    /\ task = <<>>
    /\ starts = <<>>
    /\ garmin_raised = None

\* lines 86-106: one attempt of login() under the retry decorator
LoginAttempt ==
    /\ garmin_pc \in {"login", "relogin"}
    /\ \E load_ok, login_ok, dumps_ok \in BOOLEAN :
         LET r == LoginOp(token, is_login, load_ok, login_ok, dumps_ok)
             attempt == attempt_number + 1
         IN  /\ token' = r.token
             /\ is_login' = r.is_login
             /\ IF r.exc = None
                THEN /\ login_log' = Append(login_log,
                            [how |-> "returned", is_login |-> r.is_login,
                             attempts |-> attempt])
                     /\ garmin_pc' = IF garmin_pc = "login" THEN "get_activities"
                                     ELSE "request"
                     /\ attempt_number' = 0
                     /\ UNCHANGED garmin_raised
                ELSE IF ~RetryStops(attempt)
                THEN /\ attempt_number' = attempt
                     /\ UNCHANGED <<login_log, garmin_pc, garmin_raised>>
                ELSE /\ login_log' = Append(login_log,
                            [how |-> "raised", is_login |-> r.is_login,
                             attempts |-> attempt])
                     /\ garmin_raised' = Some("RetryError")
                     /\ garmin_pc' = "raised"
                     /\ attempt_number' = 0
    /\ UNCHANGED <<login_from, api_log, activity_ids, downloaded_ids,
                   to_generate_garmin_ids, task, starts>>
    /\ UNCHANGED <<trackVars, loadVars, entryVars>>

\* lines 299, 269, 112-113: get_activities looks at is_login
GetActivities ==
    /\ garmin_pc = "get_activities"
    /\ IF ~is_login
       THEN garmin_pc' = "relogin" /\ login_from' = "get_activities"
       ELSE garmin_pc' = "request" /\ UNCHANGED login_from
    /\ UNCHANGED <<token, is_login, attempt_number, login_log, api_log,
                   activity_ids, downloaded_ids, to_generate_garmin_ids, task,
                   starts, garmin_raised>>
    /\ UNCHANGED <<trackVars, loadVars, entryVars>>

\* lines 114-119, 270-275: the request, and the ids of what it returns
Request ==
    /\ garmin_pc = "request"
    /\ api_log' = Append(api_log, is_login)
    /\ \/ /\ \E n \in 0..MaxActivities :
               activity_ids' = Some([i \in 1..n |-> Stem(i)])
          /\ garmin_pc' = "reconcile"
          /\ UNCHANGED garmin_raised
       \/ /\ garmin_raised' = Some("GarthException")
          /\ garmin_pc' = "raised"
          /\ UNCHANGED activity_ids
    /\ UNCHANGED <<token, is_login, attempt_number, login_from, login_log,
                   downloaded_ids, to_generate_garmin_ids, task, starts>>
    /\ UNCHANGED <<trackVars, loadVars, entryVars>>

\* lines 300-310: the ids to download, one download_garmin_data coroutine
\* for each, handed to gather_with_concurrency
StartDownloads ==
    /\ garmin_pc = "reconcile"
    /\ LET ids == ToGenerate(Val(activity_ids), downloaded_ids)
       IN  /\ to_generate_garmin_ids' = Some(ids)
           /\ task' = [k \in DOMAIN ids |-> "waiting"]
           /\ starts' = [k \in DOMAIN ids |-> 0]
    /\ garmin_pc' = "gather"
    /\ UNCHANGED <<token, is_login, attempt_number, login_from, login_log,
                   api_log, activity_ids, downloaded_ids, garmin_raised>>
    /\ UNCHANGED <<trackVars, loadVars, entryVars>>

\* lines 281-283: sem_task k gets the semaphore, in the order the tasks were
\* made, and starts its coroutine
Enter(k) ==
    /\ garmin_pc = "gather"
    /\ task[k] = "waiting"
    /\ \A j \in 1..(k - 1) : task[j] # "waiting"
    /\ SemaphoreFree(Cardinality(Inside))
    /\ task' = [task EXCEPT ![k] = "inside"]
    /\ starts' = [starts EXCEPT ![k] = @ + 1]
    /\ UNCHANGED <<garmin_pc, token, is_login, attempt_number, login_from,
                   login_log, api_log, activity_ids, downloaded_ids,
                   to_generate_garmin_ids, garmin_raised>>
    /\ UNCHANGED <<trackVars, loadVars, entryVars>>

\* lines 234-256, 282-283: the coroutine of task k ends and the semaphore is
\* released; an exception leaving it would leave gather and the caller
Finish(k) ==
    /\ garmin_pc = "gather"
    /\ task[k] = "inside"
    /\ \E fate \in {"ok", "error"} :
         LET r == DownloadGarminData(fate)
         IN  /\ task' = [task EXCEPT ![k] = r]
             /\ IF r = "raised"
                THEN /\ garmin_raised' = Some("Exception")
                     /\ garmin_pc' = "raised"
                ELSE UNCHANGED <<garmin_raised, garmin_pc>>
    /\ UNCHANGED <<token, is_login, attempt_number, login_from, login_log,
                   api_log, activity_ids, downloaded_ids,
                   to_generate_garmin_ids, starts>>
    /\ UNCHANGED <<trackVars, loadVars, entryVars>>

\* lines 285, 311-314: gather has every result; the ids are returned
GatherDone ==
    /\ garmin_pc = "gather"
    /\ \A k \in DOMAIN task : task[k] \in {"saved", "failed"}
    /\ garmin_pc' = "done"
    /\ UNCHANGED <<token, is_login, attempt_number, login_from, login_log,
                   api_log, activity_ids, downloaded_ids,
                   to_generate_garmin_ids, task, starts, garmin_raised>>
    /\ UNCHANGED <<trackVars, loadVars, entryVars>>

\* download_new_activities up to the list of remote activity ids
NextGarmin ==
    \/ LoginAttempt
    \/ GetActivities
    \/ Request

SpecGarmin == InitGarmin /\ [][NextGarmin]_vars

\* download_new_activities has the remote activity ids: the client logged in
\* at the first attempt and the request went through.
InitDownload ==
    /\ TracksIdle
    /\ LoaderIdle
    /\ EntryIdle
    /\ garmin_pc = "reconcile"
    /\ token = Some(DumpedToken)
    /\ is_login = TRUE
    /\ attempt_number = 0
    /\ login_from = "download_new_activities"
    /\ login_log = <<[how |-> "returned", is_login |-> TRUE, attempts |-> 1]>>
    /\ api_log = <<TRUE>>
    /\ \E n \in 0..MaxActivities : activity_ids = Some([i \in 1..n |-> Stem(i)])
    /\ downloaded_ids \in {<<>>, <<Stem(1)>>}
    /\ to_generate_garmin_ids = None
    /\ task = <<>>
    /\ starts = <<>>
    /\ garmin_raised = None

\* download_new_activities from the list of remote activity ids on
NextDownload ==
    \/ StartDownloads
    \/ \E k \in DOMAIN task : Enter(k)
    \/ \E k \in DOMAIN task : Finish(k)
    \/ GatherDone

SpecDownload == InitDownload /\ [][NextDownload]_vars

(***************************************************************************)
(* Properties of Garmin.login and Garmin.get_activities                    *)
(***************************************************************************)
\* C21: every login() call that returned left is_login True, and no request
\* was made through garth.connectapi while is_login was False.
C21_LoginReturnMeansLoggedIn ==
    /\ \A k \in DOMAIN login_log :
           login_log[k].how = "returned" => login_log[k].is_login
    /\ \A k \in DOMAIN api_log : api_log[k]

\* C21, the case at hand: no token was stored, the credential login failed in
\* the call made by download_new_activities and again in the call made by
\* get_activities, each call returned after one attempt, and the request was
\* made all the same.
C21_Witness ==
    /\ Len(login_log) = 2
    /\ \A k \in 1..2 :
           login_log[k] = [how |-> "returned", is_login |-> FALSE, attempts |-> 1]
    /\ token = None
    /\ api_log = <<FALSE>>

(***************************************************************************)
(* Properties of download_new_activities                                   *)
(***************************************************************************)
Ended(k) == task[k] \in {"saved", "failed"}

\* C22: at no time are more than 10 downloads inside the semaphore; the
\* downloads are those of the remote ids that are not downloaded yet, one
\* task per id, none started twice; no failure leaves gather or the caller;
\* while a download has not ended some download can start or end; and when
\* gather is through every task was started once and has ended.
C22_BoundedAndComplete ==
    /\ Cardinality(Inside) <= SemaphoreLimit
    /\ garmin_raised = None
    /\ garmin_pc # "raised"
    /\ to_generate_garmin_ids # None =>
         LET ids == Val(to_generate_garmin_ids)
         IN  /\ Range(ids) = Range(Val(activity_ids)) \ Range(downloaded_ids)
             /\ \A a, b \in DOMAIN ids : ids[a] = ids[b] => a = b
             /\ DOMAIN task = DOMAIN ids
             /\ \A k \in DOMAIN task :
                    /\ starts[k] <= 1
                    /\ starts[k] = 0 <=> task[k] = "waiting"
    /\ (garmin_pc = "gather" /\ \E k \in DOMAIN task : ~Ended(k)) =>
         \E k \in DOMAIN task : ENABLED Enter(k) \/ ENABLED Finish(k)
    /\ (garmin_pc = "gather" /\ \A k \in DOMAIN task : Ended(k)) =>
         ENABLED GatherDone
    /\ garmin_pc = "done" =>
         \A k \in DOMAIN task : starts[k] = 1 /\ Ended(k)

\* C22 witness: ten downloads are inside the semaphore after another one
\* failed.
C22_Witness ==
    /\ garmin_pc = "gather"
    /\ Cardinality(Inside) = SemaphoreLimit
    /\ \E k \in DOMAIN task : task[k] = "failed"

\* C22 witness: ten downloads are inside the semaphore and an eleventh is
\* kept waiting.
C22_WitnessWaiting ==
    /\ garmin_pc = "gather"
    /\ Cardinality(Inside) = SemaphoreLimit
    /\ \E k \in DOMAIN task : task[k] = "waiting" /\ ~ENABLED Enter(k)

\* C22 witness: gather is through although the first download failed.
C22_WitnessDone ==
    /\ garmin_pc = "done"
    /\ Len(task) = MaxActivities
    /\ task[1] = "failed"
    /\ \E k \in DOMAIN task : task[k] = "saved"
====
